---- MODULE Spec2Model ----
(***************************************************************************)
(* Model of the linkerd2-proxy data-plane core:                            *)
(*   - the outbound endpoint-vs-logical routing switch                     *)
(*     (linkerd/app/outbound/src/switch_logical.rs),                       *)
(*   - the inbound connector (loop filter, connect timeout, TCP dial),     *)
(*     the TCP forward stack and the listener (linkerd/app/inbound/src/    *)
(*     lib.rs),                                                            *)
(*   - the inbound HTTP server scenarios                                   *)
(*     (linkerd/app/inbound/src/http/tests.rs),                            *)
(*   - the drain channel built by the application (linkerd/app/src/lib.rs).*)
(***************************************************************************)
EXTENDS Integers, FiniteSets, Sequences, TLC

\* Option<T>: None is the empty tuple, Some(x) a one-element tuple.
None == <<>>

Some(x) == <<x>>

\* ------------------------------------------------------------------------
\* Bounds
\* ------------------------------------------------------------------------

\* Number of outbound connections offered to the routing switch.
NumOutConns == 2

OutConns == 1..NumOutConns

\* ------------------------------------------------------------------------
\* Outbound: values
\* ------------------------------------------------------------------------

\* Endpoint (address, metadata) pairs a profile may carry.
EndpointAddrs == {"192.0.2.10:1010"}

\* Logical (named) addresses a profile may carry.
LogicalAddrs == {"foo.example.com:3030"}

\* Original destination addresses of accepted connections.
OrigDstAddrs == {"192.0.2.20:2020"}

\* Endpoint metadata values.
Metadatas == {"Metadata::default"}

\* The reason given for the absence of TLS (Outbound::no_tls_reason).
no_tls_reason == "no_tls_reason"

\* profiles::Profile: the fields the switch reads.
Profile ==
    [endpoint : {None} \cup {Some(e) : e \in EndpointAddrs \X Metadatas},
     addr : {None} \cup {Some(a) : a \in LogicalAddrs},
     opaque_protocol : BOOLEAN]

\* What a sub-stack factory handed to the switch does with a target:
\* "mk" builds a working service, "Fail" is svc::Fail<_, WrongStack>.
Factories == {"mk", "Fail"}

VARIABLES
    profileTx,     \* latest snapshot in the profile watch channel
    endpointStack, \* the endpoint stack wrapped by the switch (S)
    logicalStack,  \* the logical stack given to push_switch_logical (N)
    outConn        \* per outbound connection: position, inputs, selection

outVars == <<profileTx, endpointStack, logicalStack, outConn>>

\* ------------------------------------------------------------------------
\* Outbound: targets built by the switch
\* ------------------------------------------------------------------------

\* Endpoint::from_metadata: a concrete endpoint from discovery metadata.
Endpoint_from_metadata(addr, metadata, reason, opaque_protocol) ==
    [kind |-> "Endpoint", addr |-> addr, metadata |-> metadata,
     tls |-> "NotProvidedByServiceDiscovery",
     opaque_protocol |-> opaque_protocol, from |-> "metadata"]

\* Endpoint::forward: a bare endpoint for the original destination.
Endpoint_forward(addr, reason) ==
    [kind |-> "Endpoint", addr |-> addr, metadata |-> "Metadata::default",
     tls |-> reason, opaque_protocol |-> FALSE, from |-> "forward"]

\* Logical::new: a logical target bound to the profile receiver.  Its
\* Param<Option<Skip>> is Some exactly when the profile is opaque.
Logical_new(logical_addr, rx) ==
    [kind |-> "Logical", logical_addr |-> logical_addr, profile |-> rx,
     skip |-> rx.opaque_protocol]

EitherA(t) == [either |-> "A", target |-> t]
EitherB(t) == [either |-> "B", target |-> t]

\* A switch that consults the logical address before the endpoint.
switch_logical_first(profile, target) ==
    IF profile # None /\ profile[1].addr # None
    THEN EitherB(Logical_new(profile[1].addr[1], profile[1]))
    ELSE IF profile # None /\ profile[1].endpoint # None
    THEN EitherA(Endpoint_from_metadata(profile[1].endpoint[1][1],
                     profile[1].endpoint[1][2], no_tls_reason,
                     profile[1].opaque_protocol))
    ELSE EitherA(Endpoint_forward(target, no_tls_reason))

\* A switch whose forwarded endpoint inherits the profile's opaque flag.
switch_forward_keeps_opaque(profile, target) ==
    IF profile # None
    THEN LET rx == profile[1]
         IN IF rx.endpoint # None
            THEN EitherA(Endpoint_from_metadata(rx.endpoint[1][1],
                             rx.endpoint[1][2], no_tls_reason,
                             rx.opaque_protocol))
            ELSE IF rx.addr # None
                 THEN EitherB(Logical_new(rx.addr[1], rx))
                 ELSE EitherA(Endpoint_from_metadata(target,
                                  "Metadata::default", no_tls_reason,
                                  rx.opaque_protocol))
    ELSE EitherA(Endpoint_forward(target, no_tls_reason))

\* A switch whose logical target is named by the original destination.
switch_logical_from_target(profile, target) ==
    IF profile # None
    THEN LET rx == profile[1]
         IN IF rx.endpoint # None
            THEN EitherA(Endpoint_from_metadata(rx.endpoint[1][1],
                             rx.endpoint[1][2], no_tls_reason,
                             rx.opaque_protocol))
            ELSE IF rx.addr # None
                 THEN EitherB(Logical_new(target, rx))
                 ELSE EitherA(Endpoint_forward(target, no_tls_reason))
    ELSE EitherA(Endpoint_forward(target, no_tls_reason))

\* The closure given to push_switch: (Option<profiles::Receiver>, T) ->
\* Either<Endpoint, Logical>.
switch(profile, target) ==
    IF profile # None
    THEN LET rx == profile[1]
         IN IF rx.endpoint # None
            THEN EitherA(Endpoint_from_metadata(rx.endpoint[1][1],
                             rx.endpoint[1][2], no_tls_reason,
                             rx.opaque_protocol))
            ELSE IF rx.addr # None
                 THEN EitherB(Logical_new(rx.addr[1], rx))
                 ELSE EitherA(Endpoint_forward(target, no_tls_reason))
    ELSE EitherA(Endpoint_forward(target, no_tls_reason))

\* ------------------------------------------------------------------------
\* Outbound: operations
\* ------------------------------------------------------------------------

OutIdle == [pc |-> "idle", profile |-> None, target |-> "",
            selected |-> None, built |-> {}, result |-> "none"]

\* A discovery update that re-runs the switch of the connections already
\* established.
profile_tx_send_reswitches(p) ==
    /\ p # profileTx
    /\ profileTx' = p
    /\ outConn' = [c \in OutConns |->
           IF outConn[c].pc # "idle" /\ outConn[c].profile # None
           THEN [outConn[c] EXCEPT
                     !.selected = switch(Some(p), outConn[c].target)]
           ELSE outConn[c]]
    /\ UNCHANGED <<endpointStack, logicalStack>>

\* The discovery writer replaces the snapshot in the watch channel.
profile_tx_send(p) ==
    /\ p # profileTx
    /\ profileTx' = p
    /\ UNCHANGED <<endpointStack, logicalStack, outConn>>

\* A switch whose handler construction invokes both branches' factories.
out_new_service_builds_both(c, useProfile, orig_dst) ==
    /\ outConn[c].pc = "idle"
    /\ LET rx == IF useProfile THEN Some(profileTx) ELSE None
           sel == switch(rx, orig_dst)
       IN outConn' = [outConn EXCEPT ![c] =
              [pc |-> "built", profile |-> rx, target |-> orig_dst,
               selected |-> sel,
               built |-> {"endpoint", "logical"},
               result |-> "none"]]
    /\ UNCHANGED <<profileTx, endpointStack, logicalStack>>

\* stack.new_service((profile, orig_dst)): the switch runs on the snapshot
\* current at this moment and only the selected branch's factory is
\* invoked.
out_new_service(c, useProfile, orig_dst) ==
    /\ outConn[c].pc = "idle"
    /\ LET rx == IF useProfile THEN Some(profileTx) ELSE None
           sel == switch(rx, orig_dst)
       IN outConn' = [outConn EXCEPT ![c] =
              [pc |-> "built", profile |-> rx, target |-> orig_dst,
               selected |-> sel,
               built |-> IF sel.either = "A" THEN {"endpoint"}
                                             ELSE {"logical"},
               result |-> "none"]]
    /\ UNCHANGED <<profileTx, endpointStack, logicalStack>>

\* svc.oneshot(server_io): the connection is served by the branch built
\* for it.
out_oneshot(c) ==
    /\ outConn[c].pc = "built"
    /\ LET factory == IF outConn[c].selected.either = "A"
                      THEN endpointStack ELSE logicalStack
       IN outConn' = [outConn EXCEPT ![c].pc = "served",
              ![c].result = IF factory = "Fail" THEN "WrongStack" ELSE "Ok"]
    /\ UNCHANGED <<profileTx, endpointStack, logicalStack>>

\* ------------------------------------------------------------------------
\* Inbound: values
\* ------------------------------------------------------------------------

\* Number of inbound connections offered to the listener.
NumConns == 2

Conns == 1..NumConns

\* Number of those connections that may carry HTTP.
NumHttpConns == 1

HttpConns == {c \in Conns : c <= NumHttpConns}

\* Number of connections offered to the listener of the draining proxy.
NumDrainConns == 1

DrainConns == {c \in Conns : c <= NumDrainConns}

\* Number of layers pushed on one pipeline builder.
MaxLayers == 3

\* The configured connect timeout (config.proxy.connect.timeout), in ticks.
ConnectTimeoutTicks == 2

\* Number of connections offered to the listener under protocol detection.
NumDetectConns == 1

DetectConns == {c \in Conns : c <= NumDetectConns}

\* The protocol detection budget (config.proxy.detect_protocol_timeout), in
\* ticks.
DetectTimeoutTicks == 1

\* Ticks a dial may be observed for.
MaxElapsed == ConnectTimeoutTicks + 1

\* Ports a connect target may carry; the listener is bound to one of them.
Ports == {4143, 5550}

\* Accept.version, with "tcp" for a connection that is not HTTP.
HttpVersions == {"Http1", "H2"}

Versions == {"tcp"} \cup HttpVersions

\* Content types of a request; "None" when the header is absent.
ContentTypes == {"None", "application/grpc", "text/plain"}

\* Replies of the upstream application (hello_server answers 200 with
\* "Hello world!").
UpstreamResponses == [status : {200, 404}, body : {"Hello world!", ""}]

\* Errors: Loop(port) is <<"Loop", port>>, the others carry no data.
Loop(port) == <<"Loop", port>>

ConnectTimeout == <<"ConnectTimeout">>

ConnectFailed == <<"ConnectFailed">>

FailFast == <<"FailFast">>

NoError == <<>>

\* Remote(ServerAddr(([127, 0, 0, 1], port))).
Loopback(port) == <<"127.0.0.1", port>>

VARIABLES
    proxy_port,       \* la.port(): the port the inbound listener is bound to
    signalled,        \* the drain signal has fired
    drained,          \* the drain completion future has resolved
    listener,         \* the accept loop of Inbound::serve
    retainedAtSignal, \* handlers that were retained when the signal fired
    conn              \* per inbound connection: position and data

inVars == <<proxy_port, signalled, drained, listener, retainedAtSignal, conn>>

ConnIdle ==
    [pc |-> "idle", version |-> "none", port |-> 0,
     content_type |-> "None",
     detect |-> "none", detect_elapsed |-> 0,
     with_stack |-> FALSE,
     watch |-> FALSE, retain |-> FALSE,
     dial |-> "none", dials |-> 0, dialAddr |-> <<>>,
     timer |-> "none", elapsed |-> 0,
     connErr |-> NoError, error |-> NoError,
     upstream |-> None, response |-> None, result |-> "none"]

\* Handlers holding a drain retention (their call is in flight).
Retained == {c \in Conns : conn[c].retain}

\* Connections whose service holds a clone of the drain watch.
Watching == {c \in Conns : conn[c].watch}

\* Connections the listener has accepted.
Accepted == {c \in Conns : conn[c].pc # "idle"}

\* TCP forward handlers that have been called and have not finished.
InFlightForward ==
    {c \in Conns : /\ conn[c].version = "tcp"
                   /\ conn[c].pc \in {"connect", "dialing", "connected",
                                      "connect_failed"}}

\* ------------------------------------------------------------------------
\* Inbound: the listener and the drain channel
\* ------------------------------------------------------------------------

\* An accept loop that is not stopped by the drain signal.
serve_accept_no_shutdown(c, version, port) ==
    /\ listener = "serving"
    /\ conn[c].pc = "idle"
    /\ conn' = [conn EXCEPT ![c].pc = "accepted", ![c].version = version,
                            ![c].port = port,
                            ![c].watch = (version = "tcp")]
    /\ UNCHANGED <<proxy_port, signalled, drained, listener,
                   retainedAtSignal>>

\* Inbound::serve: serve::serve(listen, stack, shutdown) accepts a
\* connection and builds its service, until
\* shutdown = drain.clone().signaled() is ready.  The TCP forward service
\* built for the connection holds a clone of the drain watch.
serve_accept(c, version, port) ==
    /\ listener = "serving"
    /\ ~signalled
    /\ conn[c].pc = "idle"
    /\ conn' = [conn EXCEPT ![c].pc = "accepted", ![c].version = version,
                            ![c].port = port,
                            ![c].watch = (version = "tcp")]
    /\ UNCHANGED <<proxy_port, signalled, drained, listener,
                   retainedAtSignal>>

\* The accept loop ends when the shutdown future is ready.
serve_shutdown ==
    /\ listener = "serving"
    /\ signalled
    /\ listener' = "stopped"
    /\ UNCHANGED <<proxy_port, signalled, drained, retainedAtSignal, conn>>

\* A signal that cancels the handlers in flight.
signal_aborts_retained ==
    /\ signalled' = TRUE
    /\ retainedAtSignal' = IF signalled THEN retainedAtSignal ELSE Retained
    /\ conn' = [c \in Conns |->
           IF conn[c].retain
           THEN [conn[c] EXCEPT !.pc = "closed", !.result = "Err",
                                !.retain = FALSE, !.watch = FALSE]
           ELSE conn[c]]
    /\ UNCHANGED <<proxy_port, drained, listener>>

\* drain::Signal: the holder of the handle returned by App::spawn fires
\* the signal.  Firing it again changes nothing.
signal ==
    /\ signalled' = TRUE
    /\ retainedAtSignal' = IF signalled THEN retainedAtSignal ELSE Retained
    /\ UNCHANGED <<proxy_port, drained, listener, conn>>

\* The completion future of the drain resolves once the signal has fired
\* and every watch and every retention has been released.
drain_complete ==
    /\ signalled
    /\ ~drained
    /\ listener = "stopped"
    /\ Watching = {}
    /\ Retained = {}
    /\ drained' = TRUE
    /\ UNCHANGED <<proxy_port, signalled, listener, retainedAtSignal, conn>>

\* ------------------------------------------------------------------------
\* Inbound: the TCP forward stack
\* ------------------------------------------------------------------------

\* A forward stack without the drain::Retain layer.
push_tcp_forward_no_retain(c) ==
    /\ conn[c].pc = "accepted"
    /\ conn[c].version = "tcp"
    /\ conn' = [conn EXCEPT ![c].pc = "connect"]
    /\ UNCHANGED <<proxy_port, signalled, drained, listener,
                   retainedAtSignal>>

\* push_tcp_forward: the service built for a connection is
\* Retain(Forward(thunk(connect))).  Calling it with the accepted I/O
\* takes a drain retention and then calls the connector.
push_tcp_forward(c) ==
    /\ conn[c].pc = "accepted"
    /\ conn[c].version = "tcp"
    /\ conn' = [conn EXCEPT ![c].pc = "connect", ![c].retain = TRUE]
    /\ UNCHANGED <<proxy_port, signalled, drained, listener,
                   retainedAtSignal>>

\* A forward whose failed connect leaves the retention in place.
tcp_forward_connect_error_keeps_retention(c) ==
    /\ conn[c].pc = "connect_failed"
    /\ conn[c].version = "tcp"
    /\ conn' = [conn EXCEPT ![c].pc = "closed", ![c].result = "Err",
                            ![c].error = conn[c].connErr]
    /\ UNCHANGED <<proxy_port, signalled, drained, listener,
                   retainedAtSignal>>

\* A forward that answers a failed connect by calling the connector again.
tcp_forward_connect_error_retries(c) ==
    /\ conn[c].pc = "connect_failed"
    /\ conn[c].version = "tcp"
    /\ IF conn[c].dials = 1
       THEN conn' = [conn EXCEPT ![c].pc = "connect"]
       ELSE conn' = [conn EXCEPT ![c].pc = "closed", ![c].result = "Err",
                                 ![c].error = conn[c].connErr,
                                 ![c].retain = FALSE, ![c].watch = FALSE]
    /\ UNCHANGED <<proxy_port, signalled, drained, listener,
                   retainedAtSignal>>

\* tcp::Forward: the connector failed, so the handler ends with the error
\* and the stream is closed; the retention and the watch are released.
tcp_forward_connect_error(c) ==
    /\ conn[c].pc = "connect_failed"
    /\ conn[c].version = "tcp"
    /\ conn' = [conn EXCEPT ![c].pc = "closed", ![c].result = "Err",
                            ![c].error = conn[c].connErr,
                            ![c].retain = FALSE, ![c].watch = FALSE]
    /\ UNCHANGED <<proxy_port, signalled, drained, listener,
                   retainedAtSignal>>

\* tcp::Forward: the duplex copy between the accepted I/O and the upstream
\* stream ends, with or without an error; the retention and the watch are
\* released.
tcp_forward_end(c, ok) ==
    /\ conn[c].pc = "connected"
    /\ conn[c].version = "tcp"
    /\ conn' = [conn EXCEPT ![c].pc = "closed",
                            ![c].result = IF ok THEN "Ok" ELSE "Err",
                            ![c].retain = FALSE, ![c].watch = FALSE]
    /\ UNCHANGED <<proxy_port, signalled, drained, listener,
                   retainedAtSignal>>

\* ------------------------------------------------------------------------
\* Inbound: the connector (loop filter, connect timeout, TCP dial)
\* ------------------------------------------------------------------------

\* A connector without the request filter: every target is dialed.
into_tcp_connect_no_filter(c) ==
    /\ conn[c].pc = "connect"
    /\ conn' = [conn EXCEPT ![c].pc = "dialing", ![c].dial = "inflight",
                            ![c].dials = conn[c].dials + 1,
                            ![c].dialAddr = Loopback(conn[c].port),
                            ![c].timer = "armed", ![c].elapsed = 0]
    /\ UNCHANGED <<proxy_port, signalled, drained, listener,
                   retainedAtSignal>>

\* A connector without the connect timeout: the dial is not timed.
into_tcp_connect_no_timeout(c) ==
    /\ conn[c].pc = "connect"
    /\ IF conn[c].port = proxy_port
       THEN conn' = [conn EXCEPT ![c].pc = "connect_failed",
                                 ![c].connErr = Loop(conn[c].port)]
       ELSE conn' = [conn EXCEPT ![c].pc = "dialing",
                                 ![c].dial = "inflight",
                                 ![c].dials = conn[c].dials + 1,
                                 ![c].dialAddr = Loopback(conn[c].port),
                                 ![c].elapsed = 0]
    /\ UNCHANGED <<proxy_port, signalled, drained, listener,
                   retainedAtSignal>>

\* A connector that dials the unspecified address instead of loopback.
into_tcp_connect_unspecified_host(c) ==
    /\ conn[c].pc = "connect"
    /\ IF conn[c].port = proxy_port
       THEN conn' = [conn EXCEPT ![c].pc = "connect_failed",
                                 ![c].connErr = Loop(conn[c].port)]
       ELSE conn' = [conn EXCEPT ![c].pc = "dialing",
                                 ![c].dial = "inflight",
                                 ![c].dials = conn[c].dials + 1,
                                 ![c].dialAddr = <<"0.0.0.0", conn[c].port>>,
                                 ![c].timer = "armed", ![c].elapsed = 0]
    /\ UNCHANGED <<proxy_port, signalled, drained, listener,
                   retainedAtSignal>>

\* into_tcp_connect: ConnectTcp wrapped by the connect timeout wrapped by
\* the request filter.  The filter fails a target on the proxy's own port
\* with Loop(port); any other target is mapped to 127.0.0.1:port and given
\* to the timed dial.
into_tcp_connect(c) ==
    /\ conn[c].pc = "connect"
    /\ IF conn[c].port = proxy_port
       THEN conn' = [conn EXCEPT ![c].pc = "connect_failed",
                                 ![c].connErr = Loop(conn[c].port)]
       ELSE conn' = [conn EXCEPT ![c].pc = "dialing",
                                 ![c].dial = "inflight",
                                 ![c].dials = conn[c].dials + 1,
                                 ![c].dialAddr = Loopback(conn[c].port),
                                 ![c].timer = "armed", ![c].elapsed = 0]
    /\ UNCHANGED <<proxy_port, signalled, drained, listener,
                   retainedAtSignal>>

\* Inbound::with_stack(connect): the connector is a stack given by the
\* caller, as build_server's: push_map_target to 127.0.0.1:port and
\* push_connect_timeout.  It has no request filter.
with_stack_connect(c) ==
    /\ conn[c].pc = "connect"
    /\ conn' = [conn EXCEPT ![c].pc = "dialing", ![c].dial = "inflight",
                            ![c].dials = conn[c].dials + 1,
                            ![c].dialAddr = Loopback(conn[c].port),
                            ![c].timer = "armed", ![c].elapsed = 0,
                            ![c].with_stack = TRUE]
    /\ UNCHANGED <<proxy_port, signalled, drained, listener,
                   retainedAtSignal>>

\* Time passes while a dial is awaited.  An armed timeout fires no later
\* than at its deadline.
Tick(c) ==
    /\ conn[c].pc = "dialing"
    /\ conn[c].elapsed < (IF conn[c].timer = "armed"
                          THEN ConnectTimeoutTicks ELSE MaxElapsed)
    /\ conn' = [conn EXCEPT ![c].elapsed = conn[c].elapsed + 1]
    /\ UNCHANGED <<proxy_port, signalled, drained, listener,
                   retainedAtSignal>>

\* The dial future, while it is still driven, completes: with a stream
\* (hello_server) or with an I/O error (connect_error).
dial_complete(c, ok) ==
    /\ conn[c].dial = "inflight"
    /\ IF conn[c].pc = "dialing"
       THEN conn' = [conn EXCEPT
                ![c].dial = IF ok THEN "connected" ELSE "refused",
                ![c].timer = IF conn[c].timer = "armed" THEN "cancelled"
                                                        ELSE conn[c].timer,
                ![c].pc = IF ok THEN "connected" ELSE "connect_failed",
                ![c].connErr = IF ok THEN NoError ELSE ConnectFailed]
       ELSE conn' = [conn EXCEPT
                ![c].dial = IF ok THEN "connected" ELSE "refused"]
    /\ UNCHANGED <<proxy_port, signalled, drained, listener,
                   retainedAtSignal>>

\* A timeout that keeps driving the dial after it has fired.
connect_timeout_keeps_dial(c) ==
    /\ conn[c].pc = "dialing"
    /\ conn[c].timer = "armed"
    /\ conn[c].dial = "inflight"
    /\ conn[c].elapsed >= ConnectTimeoutTicks
    /\ conn' = [conn EXCEPT ![c].pc = "connect_failed",
                            ![c].timer = "fired",
                            ![c].connErr = ConnectTimeout]
    /\ UNCHANGED <<proxy_port, signalled, drained, listener,
                   retainedAtSignal>>

\* push_connect_timeout: the deadline passes while the dial is pending;
\* the dial future is dropped and the call fails with ConnectTimeout.
connect_timeout(c) ==
    /\ conn[c].pc = "dialing"
    /\ conn[c].timer = "armed"
    /\ conn[c].dial = "inflight"
    /\ conn[c].elapsed >= ConnectTimeoutTicks
    /\ conn' = [conn EXCEPT ![c].pc = "connect_failed",
                            ![c].timer = "fired",
                            ![c].dial = "abandoned",
                            ![c].connErr = ConnectTimeout]
    /\ UNCHANGED <<proxy_port, signalled, drained, listener,
                   retainedAtSignal>>

\* ------------------------------------------------------------------------
\* Inbound: protocol detection
\* ------------------------------------------------------------------------

\* The listener accepts a connection and its first bytes are awaited.
detect_accept(c, port) ==
    /\ listener = "serving"
    /\ ~signalled
    /\ conn[c].pc = "idle"
    /\ conn' = [conn EXCEPT ![c].pc = "detecting", ![c].port = port]
    /\ UNCHANGED <<proxy_port, signalled, drained, listener,
                   retainedAtSignal>>

\* Time passes while the first bytes are awaited.  The detection timeout
\* fires no later than at its deadline.
DetectTick(c) ==
    /\ conn[c].pc = "detecting"
    /\ conn[c].detect_elapsed < DetectTimeoutTicks
    /\ conn' = [conn EXCEPT ![c].detect_elapsed = conn[c].detect_elapsed + 1]
    /\ UNCHANGED <<proxy_port, signalled, drained, listener,
                   retainedAtSignal>>

\* The first bytes are recognised as HTTP of the given version.
detect_http(c, version) ==
    /\ conn[c].pc = "detecting"
    /\ version \in HttpVersions
    /\ conn' = [conn EXCEPT ![c].pc = "accepted", ![c].detect = "Http",
                            ![c].version = version]
    /\ UNCHANGED <<proxy_port, signalled, drained, listener,
                   retainedAtSignal>>

\* The first bytes are not HTTP: the connection goes to the TCP forward
\* stack.
detect_not_http(c) ==
    /\ conn[c].pc = "detecting"
    /\ conn' = [conn EXCEPT ![c].pc = "accepted", ![c].detect = "NotHttp",
                            ![c].version = "tcp", ![c].watch = TRUE]
    /\ UNCHANGED <<proxy_port, signalled, drained, listener,
                   retainedAtSignal>>

\* A detector whose timeout fails the connection.
detect_timeout_fails(c) ==
    /\ conn[c].pc = "detecting"
    /\ conn[c].detect_elapsed >= DetectTimeoutTicks
    /\ conn' = [conn EXCEPT ![c].pc = "closed", ![c].detect = "Timeout",
                            ![c].result = "Err"]
    /\ UNCHANGED <<proxy_port, signalled, drained, listener,
                   retainedAtSignal>>

\* The detection budget passes without a decision: the connection is
\* treated as opaque and goes to the TCP forward stack.
detect_timeout(c) ==
    /\ conn[c].pc = "detecting"
    /\ conn[c].detect_elapsed >= DetectTimeoutTicks
    /\ conn' = [conn EXCEPT ![c].pc = "accepted", ![c].detect = "Timeout",
                            ![c].version = "tcp", ![c].watch = TRUE]
    /\ UNCHANGED <<proxy_port, signalled, drained, listener,
                   retainedAtSignal>>

\* ------------------------------------------------------------------------
\* Inbound: cancellation
\* ------------------------------------------------------------------------

\* A drop that leaves the dial future running.
drop_connection_keeps_dial(c) ==
    /\ conn[c].pc \in {"detecting", "dialing"}
    /\ conn' = [conn EXCEPT ![c].pc = "dropped",
                            ![c].retain = FALSE, ![c].watch = FALSE]
    /\ UNCHANGED <<proxy_port, signalled, drained, listener,
                   retainedAtSignal>>

\* The connection's unit of work is dropped while it waits in protocol
\* detection or in a dial: the futures it owns are dropped with it, the
\* dial and its timer among them, and its socket is closed.
drop_connection(c) ==
    /\ conn[c].pc \in {"detecting", "dialing"}
    /\ conn' = [conn EXCEPT ![c].pc = "dropped",
                            ![c].dial = IF conn[c].dial = "inflight"
                                        THEN "abandoned" ELSE conn[c].dial,
                            ![c].timer = IF conn[c].timer = "armed"
                                         THEN "cancelled" ELSE conn[c].timer,
                            ![c].retain = FALSE, ![c].watch = FALSE]
    /\ UNCHANGED <<proxy_port, signalled, drained, listener,
                   retainedAtSignal>>

\* ------------------------------------------------------------------------
\* Inbound: the HTTP server
\* ------------------------------------------------------------------------

NoHeader == "None"

\* A request is gRPC when its content-type is the gRPC wire format.
is_grpc(content_type) == content_type = "application/grpc"

\* An error translator without the gRPC exception.
respond_ignores_grpc(error, grpc) ==
    IF error = ConnectTimeout
    THEN [status |-> 504, body |-> "",
          l5d_proxy_error |-> "failed to connect"]
    ELSE IF error = FailFast
    THEN [status |-> 503, body |-> "",
          l5d_proxy_error |-> "HTTP Logical service in fail-fast"]
    ELSE [status |-> 502, body |-> "",
          l5d_proxy_error |-> "proxy received invalid response"]

\* The fixed diagnostic strings of the translation table.
FixedDiagnostics ==
    {"failed to connect", "proxy received invalid response",
     "HTTP Logical service in fail-fast"}

\* #[error("inbound connection must not target port {0}")] struct Loop(u16).
Loop_to_string(port) ==
    "inbound connection must not target port " \o ToString(port)

\* The message of the I/O error the refusing connector returns.
ConnectFailed_to_string == "server is not listening"

\* The Display of a connector error.
to_string(error) ==
    IF error # NoError /\ error[1] = "Loop"
    THEN Loop_to_string(error[2])
    ELSE IF error = ConnectFailed THEN ConnectFailed_to_string
    ELSE ""

\* An error translator that writes the Display of an error it has no row
\* for into the header.
respond_error_display(error, grpc) ==
    IF error = ConnectTimeout
    THEN [status |-> 504, body |-> "",
          l5d_proxy_error |-> "failed to connect"]
    ELSE IF error = FailFast
    THEN [status |-> IF grpc THEN 200 ELSE 503, body |-> "",
          l5d_proxy_error |-> "HTTP Logical service in fail-fast"]
    ELSE [status |-> 502, body |-> "",
          l5d_proxy_error |-> to_string(error)]

\* The error-to-response translator: a terminal response with the
\* l5d-proxy-error header.  Errors that have no row of their own take the
\* 502 row.
respond(error, grpc) ==
    IF error = ConnectTimeout
    THEN [status |-> 504, body |-> "",
          l5d_proxy_error |-> "failed to connect"]
    ELSE IF error = FailFast
    THEN [status |-> IF grpc THEN 200 ELSE 503, body |-> "",
          l5d_proxy_error |-> "HTTP Logical service in fail-fast"]
    ELSE [status |-> 502, body |-> "",
          l5d_proxy_error |-> "proxy received invalid response"]

\* A proxy that marks every response with the error header.
proxied_marks_response(rsp) ==
    [status |-> rsp.status, body |-> rsp.body,
     l5d_proxy_error |-> "proxy received invalid response"]

\* A response of the upstream is passed back as it is.
proxied(rsp) ==
    [status |-> rsp.status, body |-> rsp.body, l5d_proxy_error |-> NoHeader]

\* A client stack in which every connector error surfaces as fail-fast.
client_error_always_fail_fast(version, connErr) == FailFast

\* A client stack in which every request sees the connector's own error.
client_error_passes_connector_error(version, connErr) == connErr

\* The error a request sees when the connector stack has failed: an HTTP/1
\* request sees the connector's error, an HTTP/2 request finds the service
\* in fail-fast.
client_error(version, connErr) ==
    IF version = "H2" THEN FailFast ELSE connErr

\* A server that takes the connection's version anew from each request.
http_request_redetects(c, content_type) ==
    /\ conn[c].pc = "accepted"
    /\ conn[c].version \in HttpVersions
    /\ conn' = [conn EXCEPT ![c].pc = "connect",
                            ![c].content_type = content_type,
                            ![c].version = IF is_grpc(content_type)
                                           THEN "H2" ELSE conn[c].version]
    /\ UNCHANGED <<proxy_port, signalled, drained, listener,
                   retainedAtSignal>>

\* http_util::http_request(&mut client, req): a request arrives on an
\* accepted HTTP connection and the upstream client asks the connector for
\* a stream.
http_request(c, content_type) ==
    /\ conn[c].pc = "accepted"
    /\ conn[c].version \in HttpVersions
    /\ conn' = [conn EXCEPT ![c].pc = "connect",
                            ![c].content_type = content_type]
    /\ UNCHANGED <<proxy_port, signalled, drained, listener,
                   retainedAtSignal>>

\* The upstream answers over the stream the connector returned.
http_upstream_response(c, rsp) ==
    /\ conn[c].pc = "connected"
    /\ conn[c].version \in HttpVersions
    /\ conn' = [conn EXCEPT ![c].pc = "responded", ![c].result = "Ok",
                            ![c].upstream = Some(rsp),
                            ![c].response = Some(proxied(rsp))]
    /\ UNCHANGED <<proxy_port, signalled, drained, listener,
                   retainedAtSignal>>

\* The connector stack failed: the proxy answers by itself.
http_error_response(c) ==
    /\ conn[c].pc = "connect_failed"
    /\ conn[c].version \in HttpVersions
    /\ LET error == client_error(conn[c].version, conn[c].connErr)
       IN conn' = [conn EXCEPT ![c].pc = "responded", ![c].result = "Err",
               ![c].error = error,
               ![c].response =
                   Some(respond(error, is_grpc(conn[c].content_type)))]
    /\ UNCHANGED <<proxy_port, signalled, drained, listener,
                   retainedAtSignal>>

\* ------------------------------------------------------------------------
\* Inbound: the protocol downgrade (l5d-orig-proto)
\* ------------------------------------------------------------------------

NoMarker == "None"

\* The values carried by the l5d-orig-proto header.
Markers == {"HTTP/1.1", "HTTP/1.1; absolute-form"}

Methods == {"GET", "POST"}

Hosts == {"foo.svc.cluster.local"}

PathAndQuerys == {"/", "/a?b=1"}

Uri(scheme, authority, path_and_query) ==
    [scheme |-> scheme, authority |-> authority,
     path_and_query |-> path_and_query]

\* The URIs a meshed peer writes on an HTTP/2 request: the path alone, or
\* scheme, authority and path.
Uris ==
    {Uri("", "", pq) : pq \in PathAndQuerys}
        \cup {Uri("http", "foo.svc.cluster.local:5550", pq) :
                  pq \in PathAndQuerys}

OtherHeaders == {"accept", "x-request-id"}

Bodies == {"", "ping"}

\* The HTTP/2 requests of a meshed peer.  headers holds the names of the
\* headers other than Host and l5d-orig-proto.
Requests ==
    [version : {"HTTP/2"}, method : Methods, uri : Uris, host : Hosts,
     marker : Markers \cup {NoMarker}, headers : SUBSET OtherHeaders,
     body : Bodies]

\* What hello_server and its like answer.
DgUpstreamResponses ==
    [version : {"HTTP/1.1"}, status : {200, 404},
     headers : SUBSET {"content-length"}, body : {"Hello world!", ""}]

origin_form(uri) == Uri("", "", uri.path_and_query)

absolute_form(uri, host) ==
    Uri(IF uri.scheme = "" THEN "http" ELSE uri.scheme, host,
        uri.path_and_query)

\* A downgrade that forgets the absolute-form annotation of the marker.
downgrade_always_origin_form(req) ==
    IF req.marker = NoMarker
    THEN req
    ELSE [version |-> "HTTP/1.1", method |-> req.method,
          uri |-> origin_form(req.uri),
          host |-> req.host, marker |-> NoMarker,
          headers |-> req.headers, body |-> req.body]

\* A downgrade that leaves the marker on the request.
downgrade_keeps_marker(req) ==
    IF req.marker = NoMarker
    THEN req
    ELSE [version |-> "HTTP/1.1", method |-> req.method,
          uri |-> IF req.marker = "HTTP/1.1"
                  THEN origin_form(req.uri)
                  ELSE absolute_form(req.uri, req.host),
          host |-> req.host, marker |-> req.marker,
          headers |-> req.headers, body |-> req.body]

\* The request the proxy writes to the upstream for an HTTP/2 request:
\* with the l5d-orig-proto marker, an HTTP/1.1 request in the form the
\* marker names, the marker removed; without it, the request as it came.
downgrade(req) ==
    IF req.marker = NoMarker
    THEN req
    ELSE [version |-> "HTTP/1.1", method |-> req.method,
          uri |-> IF req.marker = "HTTP/1.1"
                  THEN origin_form(req.uri)
                  ELSE absolute_form(req.uri, req.host),
          host |-> req.host, marker |-> NoMarker,
          headers |-> req.headers, body |-> req.body]

\* The upstream's HTTP/1 response as it is handed back on the HTTP/2
\* connection.
upgrade_response(rsp) ==
    [version |-> "HTTP/2", status |-> rsp.status, headers |-> rsp.headers,
     body |-> rsp.body]

VARIABLES
    dg              \* one exchange through the downgrading server

DgIdle ==
    [pc |-> "idle", request |-> None, upstream_request |-> None,
     upstream_response |-> None, response |-> None]

\* http_util::http_request(&mut client, req): the HTTP/2 client sends a
\* request over the accepted HTTP/2 connection.
dg_http_request(req) ==
    /\ dg.pc = "idle"
    /\ dg' = [dg EXCEPT !.pc = "received", !.request = Some(req)]

\* The server forwards the request to the HTTP/1-only upstream.
dg_forward ==
    /\ dg.pc = "received"
    /\ dg' = [dg EXCEPT !.pc = "forwarded",
                        !.upstream_request = Some(downgrade(dg.request[1]))]

\* The upstream answers.  An HTTP/1-only upstream answers only a request
\* that reached it as HTTP/1.1.
dg_upstream_response(rsp) ==
    /\ dg.pc = "forwarded"
    /\ dg.upstream_request[1].version = "HTTP/1.1"
    /\ dg' = [dg EXCEPT !.pc = "answered", !.upstream_response = Some(rsp)]

\* The server hands the response back to the HTTP/2 client.
dg_response ==
    /\ dg.pc = "answered"
    /\ dg' = [dg EXCEPT !.pc = "returned",
                  !.response = Some(upgrade_response(dg.upstream_response[1]))]

\* ------------------------------------------------------------------------
\* Application: the drain channel and its watchers
\* ------------------------------------------------------------------------

\* The components Config::build hands a clone of drain_rx to.
Components == {"tap", "admin", "inbound", "outbound"}

VARIABLES
    app             \* per component, what its watch of the drain has seen

AppIdle == [k \in Components |-> "none"]

\* A component built over a drain channel of its own.
drain_watch_own_channel(k) ==
    /\ app[k] # "signaled"
    /\ app' = [app EXCEPT ![k] = "pending"]
    /\ UNCHANGED inVars

\* A build in which tap watches a drain channel of its own.
drain_watch_tap_apart(k) ==
    /\ app[k] # "signaled"
    /\ app' = [app EXCEPT ![k] = IF signalled /\ k # "tap"
                                 THEN "signaled" ELSE "pending"]
    /\ UNCHANGED inVars

\* drain_rx.clone() ... signaled(): component k polls its watch of the one
\* drain channel; the watch may have been started before the signal or be
\* started now.
drain_watch(k) ==
    /\ app[k] # "signaled"
    /\ app' = [app EXCEPT ![k] = IF signalled THEN "signaled" ELSE "pending"]
    /\ UNCHANGED inVars

\* ------------------------------------------------------------------------
\* The pipeline builder
\* ------------------------------------------------------------------------

\* The layers pushed by into_tcp_connect and by build_server.
LayerNames == {"connect_timeout", "request_filter", "map_target"}

\* svc::stack(inner): a builder is its inner handler and the layers pushed
\* on it, oldest first.
stack(inner) == [inner |-> inner, layers |-> <<>>]

\* Stack::push(layer): the layer wraps what the builder held.
push(builder, layer) ==
    [builder EXCEPT !.layers = Append(builder.layers, layer)]

\* The layer a request meets after it has passed depth layers of the
\* handler; the inner handler after all of them.
handler_at(builder, depth) ==
    IF depth < Len(builder.layers)
    THEN builder.layers[Len(builder.layers) - depth]
    ELSE builder.inner

\* A connector whose filter is pushed before the timeout.
into_tcp_connect_stack_filter_first ==
    push(push(stack("ConnectTcp"), "request_filter"), "connect_timeout")

\* The connector as into_tcp_connect builds it: ConnectTcp, then
\* push_connect_timeout, then push_request_filter.
into_tcp_connect_stack ==
    push(push(stack("ConnectTcp"), "connect_timeout"), "request_filter")

VARIABLES
    st              \* one pipeline builder, and one request through it

StIdle ==
    [pc |-> "building", builder |-> stack("inner"), connector |-> FALSE,
     port |-> 0, depth |-> 0, trace |-> <<>>]

\* Inbound::push(layer) on a builder.
st_push(layer) ==
    /\ st.pc = "building"
    /\ ~st.connector
    /\ Len(st.builder.layers) < MaxLayers
    /\ st' = [st EXCEPT !.builder = push(st.builder, layer)]

\* Inbound::into_tcp_connect(proxy_port) replaces the builder by the
\* connector.
st_into_tcp_connect ==
    /\ st.pc = "building"
    /\ st.builder = stack("inner")
    /\ st' = [st EXCEPT !.builder = into_tcp_connect_stack,
                        !.connector = TRUE]

\* A request for the given port is given to the handler built.
st_call(port) ==
    /\ st.pc = "building"
    /\ st' = [st EXCEPT !.pc = "calling", !.port = port]

\* The request enters the next handler: a layer, which passes it on, or
\* the inner handler.  The connector's filter fails a request for the
\* proxy's own port and passes nothing on.
st_enter ==
    /\ st.pc = "calling"
    /\ LET h == handler_at(st.builder, st.depth)
       IN st' = [st EXCEPT
              !.trace = Append(st.trace, h),
              !.depth = st.depth + 1,
              !.pc = IF st.depth >= Len(st.builder.layers) THEN "inner"
                     ELSE IF /\ st.connector
                             /\ h = "request_filter"
                             /\ st.port = proxy_port
                     THEN "rejected"
                     ELSE "calling"]

\* ------------------------------------------------------------------------
\* Outbound: the switch as a reader of the profile watch
\* ------------------------------------------------------------------------

\* Number of switch invocations reading the profile watch concurrently.
NumReaders == 2

Readers == 1..NumReaders

\* Number of snapshots the discovery writer sends after the initial one.
MaxWrites == 1

VARIABLES
    pw   \* the profile watch: version, replaced snapshots, reader positions

RdIdle == [pc |-> "idle", target |-> "", endpoint |-> None,
           endpointVer |-> 0, restVer |-> 0, selected |-> None]

PwIdle == [version |-> 0, superseded |-> {},
           rd |-> [r \in Readers |-> RdIdle]]

\* The snapshots written to the watch so far: the replaced ones and the
\* one now visible.
Written == pw.superseded \cup {profileTx}

\* tx.send(p): the writer replaces the visible snapshot wholesale and the
\* watch's version advances.
watch_send(p) ==
    /\ pw.version < MaxWrites
    /\ profile_tx_send(p)
    /\ pw' = [pw EXCEPT !.version = @ + 1,
                        !.superseded = @ \cup {profileTx}]

\* rx.endpoint(): the closure's first borrow of the watch, taken when the
\* switch is invoked with Some(rx) for a connection to orig_dst.
rx_endpoint(r, orig_dst) ==
    /\ pw.rd[r].pc = "idle"
    /\ pw' = [pw EXCEPT !.rd[r] =
           [RdIdle EXCEPT !.pc = IF profileTx.endpoint # None
                                 THEN "endpoint" ELSE "no_endpoint",
                          !.target = orig_dst,
                          !.endpoint = profileTx.endpoint,
                          !.endpointVer = pw.version]]
    /\ UNCHANGED outVars

\* rx.is_opaque_protocol(): a second borrow, made while building the
\* endpoint target from the pair the first borrow returned.
rx_is_opaque_protocol(r) ==
    /\ pw.rd[r].pc = "endpoint"
    /\ LET rd == pw.rd[r]
       IN pw' = [pw EXCEPT !.rd[r] =
              [rd EXCEPT !.pc = "done",
                         !.restVer = pw.version,
                         !.selected = Some(EitherA(Endpoint_from_metadata(
                             rd.endpoint[1][1], rd.endpoint[1][2],
                             no_tls_reason, profileTx.opaque_protocol)))]]
    /\ UNCHANGED outVars

\* rx.logical_addr(): the borrow made when the first one returned no
\* endpoint; the logical target keeps the receiver itself.
rx_logical_addr(r) ==
    /\ pw.rd[r].pc = "no_endpoint"
    /\ LET rd == pw.rd[r]
       IN pw' = [pw EXCEPT !.rd[r] =
              [rd EXCEPT !.pc = "done",
                         !.restVer = pw.version,
                         !.selected = Some(
                             IF profileTx.addr # None
                             THEN EitherB(Logical_new(profileTx.addr[1],
                                                      profileTx))
                             ELSE EitherA(Endpoint_forward(rd.target,
                                                           no_tls_reason)))]]
    /\ UNCHANGED outVars

\* ------------------------------------------------------------------------
\* Application: App::spawn and the admin daemon thread
\* ------------------------------------------------------------------------

\* identity::Identity as App holds it.
Identities == {"Enabled", "Disabled"}

VARIABLES
    adm  \* App::spawn: the admin thread, the identity task and the latch

\* The App as Config::build returns it: nothing spawned, the readiness
\* latch held by the admin server and not released.
AdmIdle == [pc |-> "built", identity |-> "none", task |-> "none",
            crt |-> "none", await_crt |-> "none", proxy |-> "none",
            latch |-> <<>>]

\* latch.release(): one release, made on the given thread.
release(latch, thread) == Append(latch, thread)

\* App::spawn(self): the admin thread is created, start_proxy is spawned
\* on the main runtime and the drain signal is returned.
spawn(identity) ==
    /\ adm.pc = "built"
    /\ adm' = [adm EXCEPT !.pc = "spawned", !.identity = identity,
                          !.proxy = "spawned"]
    /\ UNCHANGED app

\* An admin thread that releases the latch whether or not identity is
\* enabled.
admin_thread_releases_at_start ==
    /\ adm.pc = "spawned"
    /\ adm' = IF adm.identity = "Enabled"
              THEN [adm EXCEPT !.pc = "running", !.task = "running",
                               !.crt = "pending", !.await_crt = "pending",
                               !.latch = release(@, "admin")]
              ELSE [adm EXCEPT !.pc = "running",
                               !.latch = release(@, "admin")]
    /\ UNCHANGED app

\* The admin thread's block up to its wait on admin_shutdown_rx: it has no
\* suspension point, so it is one step.  With identity enabled the
\* identity task and the await_crt future are spawned; otherwise the latch
\* is released here.
admin_thread ==
    /\ adm.pc = "spawned"
    /\ adm' = IF adm.identity = "Enabled"
              THEN [adm EXCEPT !.pc = "running", !.task = "running",
                               !.crt = "pending", !.await_crt = "pending"]
              ELSE [adm EXCEPT !.pc = "running",
                               !.latch = release(@, "admin")]
    /\ UNCHANGED app

\* The identity task obtains the local certificate.
identity_task_certified ==
    /\ adm.pc = "running"
    /\ adm.task = "running"
    /\ adm.crt = "pending"
    /\ adm' = [adm EXCEPT !.crt = "obtained"]
    /\ UNCHANGED app

\* The identity task is lost before it has a certificate.
identity_task_lost ==
    /\ adm.pc = "running"
    /\ adm.task = "running"
    /\ adm.crt = "pending"
    /\ adm' = [adm EXCEPT !.task = "lost", !.crt = "lost"]
    /\ UNCHANGED app

\* local.await_crt().map_ok(..): the future spawned on the admin runtime
\* resolves with the certificate and its closure releases the latch.
await_crt_ok ==
    /\ adm.pc = "running"
    /\ adm.await_crt = "pending"
    /\ adm.crt = "obtained"
    /\ adm' = [adm EXCEPT !.await_crt = "ok",
                          !.latch = release(@, "admin")]
    /\ UNCHANGED app

\* local.await_crt().map_err(..): the future resolves with an error and
\* its closure panics; the latch is not released.
await_crt_err ==
    /\ adm.pc = "running"
    /\ adm.await_crt = "pending"
    /\ adm.crt = "lost"
    /\ adm' = [adm EXCEPT !.await_crt = "panicked"]
    /\ UNCHANGED app

\* admin_shutdown_rx resolves: block_on returns and the admin runtime is
\* dropped with the tasks spawned on it.
admin_shutdown ==
    /\ adm.pc = "running"
    /\ adm' = [adm EXCEPT !.pc = "stopped",
                          !.task = IF @ = "running" THEN "dropped" ELSE @,
                          !.await_crt = IF @ = "pending" THEN "dropped"
                                        ELSE @]
    /\ UNCHANGED app

\* A component started by spawn polls its watch of the drain: tap and the
\* admin server run on the admin thread, the proxies in start_proxy.
spawned_drain_watch(k) ==
    /\ IF k \in {"tap", "admin"} THEN adm.pc = "running"
                                 ELSE adm.proxy = "spawned"
    /\ drain_watch(k)
    /\ UNCHANGED adm

\* The handle spawn returned is signalled.
spawned_signal ==
    /\ adm.pc # "built"
    /\ signal
    /\ UNCHANGED <<app, adm>>

vars == <<outVars, inVars, dg, app, st, pw, adm>>

OutNext ==
    /\ \/ \E p \in Profile : profile_tx_send(p)
       \/ \E c \in OutConns, useProfile \in BOOLEAN, t \in OrigDstAddrs :
              out_new_service(c, useProfile, t)
       \/ \E c \in OutConns : out_oneshot(c)
    /\ UNCHANGED <<inVars, dg, app, st, pw, adm>>

\* The outbound stack is built over some endpoint and logical stacks and
\* the discovery holds some profile; the inbound proxy is at rest.
InitSwitch ==
    /\ profileTx \in Profile
    /\ endpointStack \in Factories
    /\ logicalStack \in Factories
    /\ outConn = [c \in OutConns |-> OutIdle]
    /\ proxy_port \in Ports
    /\ signalled = FALSE
    /\ drained = FALSE
    /\ listener = "serving"
    /\ retainedAtSignal = {}
    /\ conn = [c \in Conns |-> ConnIdle]
    /\ dg = DgIdle
    /\ app = AppIdle
    /\ st = StIdle
    /\ pw = PwIdle
    /\ adm = AdmIdle

\* The outbound routing switch.
SpecSwitch == InitSwitch /\ [][OutNext]_vars

InNext ==
    /\ \/ \E c \in Conns, p \in Ports : serve_accept(c, "tcp", p)
       \/ serve_shutdown
       \/ signal
       \/ drain_complete
       \/ \E c \in Conns : push_tcp_forward(c)
       \/ \E c \in Conns : tcp_forward_connect_error(c)
       \/ \E c \in Conns, ok \in BOOLEAN : tcp_forward_end(c, ok)
       \/ \E c \in Conns : into_tcp_connect(c)
       \/ \E c \in Conns : Tick(c)
       \/ \E c \in Conns, ok \in BOOLEAN : dial_complete(c, ok)
       \/ \E c \in Conns : connect_timeout(c)
    /\ UNCHANGED <<outVars, dg, app, st, pw, adm>>

HttpNext ==
    /\ \/ \E c \in HttpConns, v \in HttpVersions, p \in Ports :
              serve_accept(c, v, p)
       \/ \E c \in HttpConns, ct \in ContentTypes : http_request(c, ct)
       \/ \E c \in HttpConns : into_tcp_connect(c)
       \/ \E c \in HttpConns : Tick(c)
       \/ \E c \in HttpConns, ok \in BOOLEAN : dial_complete(c, ok)
       \/ \E c \in HttpConns : connect_timeout(c)
       \/ \E c \in HttpConns, rsp \in UpstreamResponses :
              http_upstream_response(c, rsp)
       \/ \E c \in HttpConns : http_error_response(c)
    /\ UNCHANGED <<outVars, dg, app, st, pw, adm>>

\* The inbound listener is bound and serving, the drain has not been
\* signalled, and no connection has been accepted; the outbound stack is
\* at rest.
Init ==
    /\ proxy_port \in Ports
    /\ signalled = FALSE
    /\ drained = FALSE
    /\ listener = "serving"
    /\ retainedAtSignal = {}
    /\ conn = [c \in Conns |-> ConnIdle]
    /\ dg = DgIdle
    /\ app = AppIdle
    /\ st = StIdle
    /\ pw = PwIdle
    /\ adm = AdmIdle
    /\ profileTx = [endpoint |-> None, addr |-> None,
                    opaque_protocol |-> FALSE]
    /\ endpointStack = "mk"
    /\ logicalStack = "mk"
    /\ outConn = [c \in OutConns |-> OutIdle]

\* The inbound proxy on the opaque path: listener, connector, TCP
\* forwarding and drain.
Spec == Init /\ [][InNext]_vars

\* The inbound proxy on the HTTP path: listener, connector, HTTP server.
SpecHttp == Init /\ [][HttpNext]_vars

DgNext ==
    /\ \/ \E req \in Requests : dg_http_request(req)
       \/ dg_forward
       \/ \E rsp \in DgUpstreamResponses : dg_upstream_response(rsp)
       \/ dg_response
    /\ UNCHANGED <<outVars, inVars, app, st, pw, adm>>

\* The inbound HTTP server over an HTTP/2 connection of a meshed peer and
\* an HTTP/1-only upstream.
SpecDowngrade == Init /\ [][DgNext]_vars

DetectNext ==
    /\ \/ \E c \in DetectConns, p \in Ports : detect_accept(c, p)
       \/ \E c \in DetectConns : DetectTick(c)
       \/ \E c \in DetectConns, v \in HttpVersions : detect_http(c, v)
       \/ \E c \in DetectConns : detect_not_http(c)
       \/ \E c \in DetectConns : detect_timeout(c)
       \/ \E c \in DetectConns : push_tcp_forward(c)
       \/ \E c \in DetectConns : tcp_forward_connect_error(c)
       \/ \E c \in DetectConns, ok \in BOOLEAN : tcp_forward_end(c, ok)
       \/ \E c \in DetectConns : into_tcp_connect(c)
       \/ \E c \in DetectConns : Tick(c)
       \/ \E c \in DetectConns, ok \in BOOLEAN : dial_complete(c, ok)
       \/ \E c \in DetectConns : connect_timeout(c)
    /\ UNCHANGED <<outVars, dg, app, st, pw, adm>>

\* The inbound proxy from accept through protocol detection to the TCP
\* forward stack.
SpecDetect == Init /\ [][DetectNext]_vars

CancelNext ==
    /\ \/ \E c \in DetectConns, p \in Ports : detect_accept(c, p)
       \/ \E c \in DetectConns : DetectTick(c)
       \/ \E c \in DetectConns, v \in HttpVersions : detect_http(c, v)
       \/ \E c \in DetectConns : detect_not_http(c)
       \/ \E c \in DetectConns : detect_timeout(c)
       \/ \E c \in DetectConns : push_tcp_forward(c)
       \/ \E c \in DetectConns : tcp_forward_connect_error(c)
       \/ \E c \in DetectConns, ok \in BOOLEAN : tcp_forward_end(c, ok)
       \/ \E c \in DetectConns : into_tcp_connect(c)
       \/ \E c \in DetectConns : Tick(c)
       \/ \E c \in DetectConns, ok \in BOOLEAN : dial_complete(c, ok)
       \/ \E c \in DetectConns : connect_timeout(c)
       \/ \E c \in DetectConns : drop_connection(c)
    /\ UNCHANGED <<outVars, dg, app, st, pw, adm>>

\* The inbound proxy from accept to the TCP forward stack, with
\* connections that may be dropped while they wait.
SpecCancel == Init /\ [][CancelNext]_vars

ForwardNext ==
    /\ \/ \E c \in DrainConns, p \in Ports : serve_accept(c, "tcp", p)
       \/ \E c \in DrainConns : push_tcp_forward(c)
       \/ \E c \in DrainConns : into_tcp_connect(c)
       \/ \E c \in DrainConns : with_stack_connect(c)
       \/ \E c \in DrainConns : Tick(c)
       \/ \E c \in DrainConns, ok \in BOOLEAN : dial_complete(c, ok)
       \/ \E c \in DrainConns : connect_timeout(c)
       \/ \E c \in DrainConns : tcp_forward_connect_error(c)
       \/ \E c \in DrainConns, ok \in BOOLEAN : tcp_forward_end(c, ok)
    /\ UNCHANGED <<outVars, dg, app, st, pw, adm>>

\* The pipelines push_tcp_forward produces: over the connector of
\* into_tcp_connect and over a connector given to with_stack.
SpecForward == Init /\ [][ForwardNext]_vars

InboundNext ==
    /\ \/ \E c \in DrainConns, v \in Versions, p \in Ports :
              serve_accept(c, v, p)
       \/ \E c \in DrainConns : push_tcp_forward(c)
       \/ \E c \in DrainConns, ct \in ContentTypes : http_request(c, ct)
       \/ \E c \in DrainConns : into_tcp_connect(c)
       \/ \E c \in DrainConns : Tick(c)
       \/ \E c \in DrainConns, ok \in BOOLEAN : dial_complete(c, ok)
       \/ \E c \in DrainConns : connect_timeout(c)
       \/ \E c \in DrainConns : tcp_forward_connect_error(c)
       \/ \E c \in DrainConns, ok \in BOOLEAN : tcp_forward_end(c, ok)
       \/ \E c \in DrainConns, rsp \in UpstreamResponses :
              http_upstream_response(c, rsp)
       \/ \E c \in DrainConns : http_error_response(c)
    /\ UNCHANGED <<outVars, dg, app, st, pw, adm>>

\* The inbound proxy on both paths: a connection is opaque TCP or HTTP.
SpecInbound == Init /\ [][InboundNext]_vars

DrainNext ==
    /\ \/ \E c \in DrainConns, p \in Ports : serve_accept(c, "tcp", p)
       \/ serve_shutdown
       \/ signal
       \/ drain_complete
       \/ \E c \in DrainConns : push_tcp_forward(c)
       \/ \E c \in DrainConns : tcp_forward_connect_error(c)
       \/ \E c \in DrainConns, ok \in BOOLEAN : tcp_forward_end(c, ok)
       \/ \E c \in DrainConns : into_tcp_connect(c)
       \/ \E c \in DrainConns : Tick(c)
       \/ \E c \in DrainConns, ok \in BOOLEAN : dial_complete(c, ok)
       \/ \E c \in DrainConns : connect_timeout(c)
    /\ UNCHANGED <<outVars, dg, app, st, pw, adm>>

\* The runtime polls every task that can make progress: the accept loop
\* sees its shutdown future, the drain sees its handles dropped, a handler
\* built for a connection is called, calls its connector, has its connect
\* timer advance and fire, and a forward that has begun ends.  The remote
\* side is not obliged to answer a dial.
DrainFairness ==
    /\ WF_inVars(serve_shutdown)
    /\ WF_inVars(drain_complete)
    /\ \A c \in DrainConns :
           /\ WF_inVars(push_tcp_forward(c))
           /\ WF_inVars(into_tcp_connect(c))
           /\ WF_inVars(Tick(c))
           /\ WF_inVars(connect_timeout(c))
           /\ WF_inVars(tcp_forward_connect_error(c))
           /\ WF_inVars(\E ok \in BOOLEAN : tcp_forward_end(c, ok))

\* The inbound proxy on the opaque path, with every handler that can
\* finish finishing.
SpecDrain == Init /\ [][DrainNext]_vars /\ DrainFairness

StackNext ==
    /\ \/ \E layer \in LayerNames : st_push(layer)
       \/ st_into_tcp_connect
       \/ \E p \in Ports : st_call(p)
       \/ st_enter
    /\ UNCHANGED <<outVars, inVars, dg, app, pw, adm>>

\* A pipeline builder, the layers pushed on it, and a request through the
\* handler it produces.
SpecStack == Init /\ [][StackNext]_vars

AppNext ==
    \/ signal /\ UNCHANGED <<outVars, dg, app, st, pw, adm>>
    \/ \E k \in Components : drain_watch(k) /\ UNCHANGED <<outVars, dg, st, pw, adm>>

\* The application's drain channel, its signal and the components watching
\* it.
SpecApp == Init /\ [][AppNext]_vars

\* ------------------------------------------------------------------------
\* Claims
\* ------------------------------------------------------------------------

\* C1: for every (optional profile, target) pair given to the switch, the
\* selection is an Endpoint built from the profile's endpoint address and
\* metadata when the profile is present and carries an endpoint; otherwise
\* a Logical bound to the profile's logical address when the profile is
\* present and carries one; otherwise an Endpoint forwarding to the
\* target's original destination.  An endpoint wins over a logical address.
C1_SwitchSelection ==
    \A c \in OutConns :
        outConn[c].pc # "idle" =>
            LET p == outConn[c].profile
                t == outConn[c].target
                s == outConn[c].selected
            IN /\ s.either \in {"A", "B"}
               /\ (p # None /\ p[1].endpoint # None) =>
                      /\ s.either = "A"
                      /\ s.target.kind = "Endpoint"
                      /\ s.target.addr = p[1].endpoint[1][1]
                      /\ s.target.metadata = p[1].endpoint[1][2]
                      /\ s.target.from = "metadata"
               /\ (p # None /\ p[1].endpoint = None /\ p[1].addr # None) =>
                      /\ s.either = "B"
                      /\ s.target.kind = "Logical"
                      /\ s.target.logical_addr = p[1].addr[1]
               /\ (p = None \/ (p[1].endpoint = None /\ p[1].addr = None)) =>
                      /\ s.either = "A"
                      /\ s.target.kind = "Endpoint"
                      /\ s.target.addr = t
                      /\ s.target.from = "forward"

\* C1 witness: a connection whose profile carries both an endpoint and a
\* logical address has been switched to the endpoint.
C1_Witness ==
    \E c \in OutConns :
        /\ outConn[c].pc # "idle"
        /\ outConn[c].profile # None
        /\ outConn[c].profile[1].endpoint # None
        /\ outConn[c].profile[1].addr # None
        /\ outConn[c].selected.either = "A"

\* C2: for every connect target whose port is the proxy's own listening
\* port, the connector has failed with Loop(port) without dialing: the TCP
\* connector was never invoked and the connect timeout never started.
C2_LoopBeforeDial ==
    \A c \in Conns :
        (/\ conn[c].port = proxy_port
         /\ conn[c].pc \notin {"idle", "accepted", "connect"}) =>
            /\ conn[c].connErr = Loop(proxy_port)
            /\ conn[c].dials = 0
            /\ conn[c].dial = "none"
            /\ conn[c].dialAddr = <<>>
            /\ conn[c].timer = "none"

\* C2 witness: a handler for a target on the proxy port has ended with the
\* Loop error.
C2_Witness ==
    \E c \in Conns :
        /\ conn[c].port = proxy_port
        /\ conn[c].pc = "closed"
        /\ conn[c].error = Loop(proxy_port)

\* C3: every forward handler in flight is retained, and the drain
\* completion is unresolved while a retained handler has not finished,
\* whether it was retained before the signal or at the moment it fired.
C3_DrainWaitsForRetained ==
    /\ InFlightForward \subseteq Retained
    /\ (Retained # {} => ~drained)
    /\ (drained => \A c \in retainedAtSignal : conn[c].pc = "closed")

\* C3 witness: the signal has fired, the listener has stopped, and a
\* handler retained before the signal is still running.
C3_Witness ==
    /\ signalled
    /\ listener = "stopped"
    /\ ~drained
    /\ \E c \in retainedAtSignal : c \in Retained /\ conn[c].pc = "connected"

C5_ConnectTimeoutAbandonsDial ==
    /\ [](\A c \in Conns :
            /\ (conn[c].pc = "dialing" =>
                    conn[c].elapsed <= ConnectTimeoutTicks)
            /\ (conn[c].connErr = ConnectTimeout =>
                    /\ conn[c].port # proxy_port
                    /\ conn[c].elapsed >= ConnectTimeoutTicks
                    /\ conn[c].dial = "abandoned"
                    /\ conn[c].dials = 1))
    /\ [][\A c \in Conns :
            conn[c].dial = "abandoned" =>
                /\ conn'[c].dial = "abandoned"
                /\ conn'[c].dials = conn[c].dials]_vars

\* C5 witness: a handler has ended with ConnectTimeout after its dial was
\* abandoned.
C5_Witness ==
    \E c \in Conns :
        /\ conn[c].pc = "closed"
        /\ conn[c].error = ConnectTimeout
        /\ conn[c].dial = "abandoned"

\* C6: an HTTP/1 request whose connector fails to connect is answered with
\* 502 Bad Gateway and l5d-proxy-error "proxy received invalid response".
C6_Http1BadGateway ==
    \A c \in Conns :
        (/\ conn[c].pc = "responded"
         /\ conn[c].version = "Http1"
         /\ conn[c].connErr = ConnectFailed) =>
            /\ conn[c].response[1].status = 502
            /\ conn[c].response[1].l5d_proxy_error =
                   "proxy received invalid response"

\* C6 witness: an HTTP/1 request has been answered after its connector
\* failed.
C6_Witness ==
    \E c \in Conns :
        /\ conn[c].pc = "responded"
        /\ conn[c].version = "Http1"
        /\ conn[c].dial = "refused"
        /\ conn[c].response[1].status = 502

C8_FailFastStatus ==
    \A c \in Conns :
        (/\ conn[c].pc = "responded"
         /\ conn[c].version = "H2"
         /\ conn[c].error = FailFast) =>
            /\ conn[c].response[1].status =
                   (IF conn[c].content_type = "application/grpc"
                    THEN 200 ELSE 503)
            /\ conn[c].response[1].l5d_proxy_error =
                   "HTTP Logical service in fail-fast"

\* C8 witness: a gRPC request over HTTP/2 has been answered 200 with the
\* fail-fast diagnostic.
C8_Witness ==
    \E c \in Conns :
        /\ conn[c].pc = "responded"
        /\ conn[c].version = "H2"
        /\ conn[c].content_type = "application/grpc"
        /\ conn[c].error = FailFast
        /\ conn[c].response[1].status = 200

\* C9 as stated: a failure of the connector to connect is answered with
\* 502 Bad Gateway and "proxy received invalid response" for every request
\* on the HTTP path, HTTP/1 or HTTP/2, gRPC or not.
C9_Original ==
    \A c \in Conns :
        (/\ conn[c].pc = "responded"
         /\ conn[c].connErr = ConnectFailed) =>
            /\ conn[c].response[1].status = 502
            /\ conn[c].response[1].l5d_proxy_error =
                   "proxy received invalid response"

\* C9 amended: a failure of the connector to connect is answered with 502
\* Bad Gateway and "proxy received invalid response" for every HTTP/1
\* request, gRPC content-type or not; an HTTP/2 request finds the service
\* in fail-fast and is answered 503, or 200 when it is gRPC, with
\* "HTTP Logical service in fail-fast".
C9_ConnectFailedByVersion ==
    \A c \in Conns :
        (/\ conn[c].pc = "responded"
         /\ conn[c].connErr = ConnectFailed) =>
            IF conn[c].version = "Http1"
            THEN /\ conn[c].error = ConnectFailed
                 /\ conn[c].response[1].status = 502
                 /\ conn[c].response[1].l5d_proxy_error =
                        "proxy received invalid response"
            ELSE /\ conn[c].error = FailFast
                 /\ conn[c].response[1].status =
                        (IF conn[c].content_type = "application/grpc"
                         THEN 200 ELSE 503)
                 /\ conn[c].response[1].l5d_proxy_error =
                        "HTTP Logical service in fail-fast"

\* C9 witness: an HTTP/1 request with the gRPC content-type has been
\* answered 502 after its connector failed.
C9_Witness ==
    \E c \in Conns :
        /\ conn[c].pc = "responded"
        /\ conn[c].version = "Http1"
        /\ conn[c].content_type = "application/grpc"
        /\ conn[c].connErr = ConnectFailed
        /\ conn[c].response[1].status = 502

C11_DowngradeRequestForm ==
    (dg.pc \in {"forwarded", "answered", "returned"}
        /\ dg.request[1].marker # NoMarker) =>
        LET req == dg.request[1]
            up == dg.upstream_request[1]
        IN /\ up.version = "HTTP/1.1"
           /\ up.host = req.host
           /\ up.uri.path_and_query = req.uri.path_and_query
           /\ req.marker = "HTTP/1.1" =>
                  /\ up.uri.scheme = ""
                  /\ up.uri.authority = ""
           /\ req.marker = "HTTP/1.1; absolute-form" =>
                  /\ up.uri.scheme # ""
                  /\ up.uri.authority = req.host

\* An absolute-form marker on a request that came with the path alone has
\* been forwarded with a rebuilt URI and the upstream's answer returned.
C11_Witness ==
    /\ dg.pc = "returned"
    /\ dg.request[1].marker = "HTTP/1.1; absolute-form"
    /\ dg.request[1].uri.scheme = ""
    /\ dg.upstream_request[1].uri.authority = "foo.svc.cluster.local"
    /\ dg.response[1].status = 200

C13_OnlySelectedBranchBuilt ==
    \A c \in OutConns :
        outConn[c].pc # "idle" =>
            LET sel == outConn[c].selected
                branch == IF sel.either = "A" THEN "endpoint" ELSE "logical"
                factory == IF sel.either = "A" THEN endpointStack
                                               ELSE logicalStack
            IN /\ outConn[c].built = {branch}
               /\ Cardinality(outConn[c].built) = 1
               /\ (outConn[c].pc = "served" /\ factory = "mk") =>
                      outConn[c].result = "Ok"

\* A connection routed to the endpoint branch was served while the logical
\* factory always fails, and another routed to the logical branch was
\* served while the endpoint factory always fails.
C13_Witness ==
    \E c \in OutConns :
        /\ outConn[c].pc = "served"
        /\ outConn[c].result = "Ok"
        /\ \/ /\ outConn[c].selected.either = "A"
              /\ logicalStack = "Fail"
              /\ endpointStack = "mk"
           \/ /\ outConn[c].selected.either = "B"
              /\ endpointStack = "Fail"
              /\ logicalStack = "mk"

C19_EndpointOpaque ==
    \A c \in OutConns :
        (outConn[c].pc # "idle" /\ outConn[c].selected.either = "A") =>
            LET rx == outConn[c].profile
                ep == outConn[c].selected.target
            IN IF rx # None /\ rx[1].endpoint # None
               THEN ep.opaque_protocol = rx[1].opaque_protocol
               ELSE /\ ep.addr = outConn[c].target
                    /\ ep.opaque_protocol = FALSE

\* A connection was built while the profile had the opaque flag set and
\* neither an endpoint nor a logical address: its forwarded endpoint is not
\* opaque.
C19_Witness ==
    \E c \in OutConns :
        /\ outConn[c].pc # "idle"
        /\ outConn[c].profile # None
        /\ outConn[c].profile[1].opaque_protocol
        /\ outConn[c].profile[1].endpoint = None
        /\ outConn[c].profile[1].addr = None
        /\ outConn[c].selected.either = "A"
        /\ ~outConn[c].selected.target.opaque_protocol

\* C15: signal() is idempotent: the drain moves from not-signalled to
\* signalled at most once, a signal on a signalled drain changes nothing,
\* and every watch, started before or after the signal, that looks at the
\* drain once it is signalled observes the signalled state (and none
\* observes it earlier).
C15_SignalIdempotent ==
    [][/\ signalled =>
              /\ signalled'
              /\ app' = app => UNCHANGED vars
              /\ \A k \in Components :
                     app'[k] # app[k] => app'[k] = "signaled"
       /\ \A k \in Components :
              /\ app'[k] = "signaled" => signalled
              /\ app[k] = "signaled" => app'[k] = "signaled"]_vars

\* After the signal, a watch started before it (tap, pending until then)
\* and a watch started after it (admin) have both observed it, and a third
\* component has not looked yet.
C15_Witness ==
    /\ signalled
    /\ app["tap"] = "signaled"
    /\ app["admin"] = "signaled"
    /\ app["inbound"] = "pending"
    /\ app["outbound"] = "none"

\* C16: once signal() has fired, if every retained handler eventually
\* finishes, the drain's completion eventually resolves: no retention
\* taken after the signal postpones it forever.
C16_DrainTerminates == signalled ~> drained

\* The drain has completed although a handler was retained when the signal
\* fired.
C16_Witness ==
    /\ drained
    /\ retainedAtSignal # {}
    /\ \A c \in retainedAtSignal : conn[c].pc = "closed"

\* C17: a connection whose first bytes are not recognised as HTTP within
\* the detection budget, the detection timeout included, is classified as
\* opaque TCP and handed to the TCP forward stack; detection never ends
\* with the connection failed, and never holds it beyond the budget.
C17_DetectionFallsBackToOpaque ==
    /\ [](\A c \in DetectConns :
              /\ conn[c].detect \in {"NotHttp", "Timeout"} =>
                     /\ conn[c].version = "tcp"
                     /\ conn[c].pc \in {"accepted", "connect", "dialing",
                                        "connected", "connect_failed",
                                        "closed"}
              /\ conn[c].pc = "detecting" =>
                     conn[c].detect_elapsed <= DetectTimeoutTicks)
    /\ [][\A c \in DetectConns :
              (conn[c].pc = "detecting" /\ conn'[c].pc # "detecting") =>
                  /\ conn'[c].pc = "accepted"
                  /\ conn'[c].result = "none"
                  /\ conn'[c].error = NoError
                  /\ conn'[c].detect \in {"Http", "NotHttp", "Timeout"}]_vars

\* A connection whose detection timed out is being forwarded as opaque
\* TCP.
C17_Witness ==
    \E c \in DetectConns :
        /\ conn[c].detect = "Timeout"
        /\ conn[c].detect_elapsed = DetectTimeoutTicks
        /\ conn[c].version = "tcp"
        /\ conn[c].pc = "connected"
        /\ conn[c].retain

\* C18: Accept.version is set once, when the connection starts, and has
\* the same value in every later state of the connection, whatever
\* requests and responses follow.
C18_AcceptVersionFixed ==
    [][\A c \in HttpConns :
           /\ (conn[c].pc = "idle" /\ conn'[c].pc # "idle") =>
                  conn'[c].version \in HttpVersions
           /\ conn[c].pc # "idle" =>
                  conn'[c].version = conn[c].version]_vars

\* An HTTP/1 connection has carried a gRPC-typed request and an error
\* response, and an HTTP/2 connection a request and the upstream's
\* response; each still has the version it was accepted with.
C18_Witness ==
    \E c \in HttpConns :
        /\ conn[c].pc = "responded"
        /\ conn[c].response # None
        /\ \/ /\ conn[c].version = "Http1"
              /\ conn[c].content_type = "application/grpc"
              /\ conn[c].result = "Err"
           \/ /\ conn[c].version = "H2"
              /\ conn[c].result = "Ok"

C21_SignalCooperative ==
    [][/\ (~signalled /\ signalled') => conn' = conn
       /\ \A c \in Conns :
              /\ (conn[c].retain /\ ~conn'[c].retain) =>
                     /\ conn[c].pc \in {"connected", "connect_failed"}
                     /\ conn'[c].pc = "closed"
                     /\ conn'[c].result \in {"Ok", "Err"}
              /\ (conn[c].retain /\ conn'[c].pc # conn[c].pc) =>
                     <<conn[c].pc, conn'[c].pc>> \in
                         {<<"connect", "dialing">>,
                          <<"connect", "connect_failed">>,
                          <<"dialing", "connected">>,
                          <<"dialing", "connect_failed">>,
                          <<"connected", "closed">>,
                          <<"connect_failed", "closed">>}]_vars

\* A handler that was retained when the signal fired has since connected,
\* forwarded and finished without error.
C21_Witness ==
    /\ signalled
    /\ \E c \in retainedAtSignal :
           /\ conn[c].pc = "closed"
           /\ conn[c].result = "Ok"
           /\ conn[c].dial = "connected"

\* C22: a retained handler releases its retention on every exit path: a
\* handler that has ended, with a connect failure or a forward error as
\* much as without error, holds neither retention nor watch, so once the
\* listener has stopped and every handler has ended nothing keeps the
\* drain's completion from resolving.
C22_RetentionReleasedOnEveryExit ==
    /\ \A c \in Conns :
           conn[c].pc = "closed" =>
               /\ ~conn[c].retain
               /\ ~conn[c].watch
               /\ conn[c].result \in {"Ok", "Err"}
    /\ (/\ signalled
        /\ listener = "stopped"
        /\ \A c \in Conns : conn[c].pc \in {"idle", "closed"}) =>
           /\ Retained = {}
           /\ Watching = {}

\* The drain has completed after a handler retained at the signal ended
\* with a connect failure and another ended with a forward error.
C22_Witness ==
    /\ drained
    /\ \E c \in retainedAtSignal :
           /\ conn[c].result = "Err"
           /\ conn[c].error \in {ConnectFailed, ConnectTimeout}
    /\ \E c \in Conns :
           /\ conn[c].pc = "closed"
           /\ conn[c].result = "Err"
           /\ conn[c].dial = "connected"

C25_LayersWrapInPushOrder ==
    LET layers == st.builder.layers
        n == Len(layers)
    IN /\ \A i \in 1..Len(st.trace) :
              st.trace[i] = IF i <= n THEN layers[n + 1 - i]
                                      ELSE st.builder.inner
       /\ st.pc = "inner" =>
              /\ Len(st.trace) = n + 1
              /\ st.trace[n + 1] = st.builder.inner
       /\ (st.connector /\ st.pc = "inner") =>
              st.trace = <<"request_filter", "connect_timeout", "ConnectTcp">>
       /\ (st.connector /\ st.pc = "rejected") =>
              st.trace = <<"request_filter">>

\* A request has gone through three pushed layers to the inner handler,
\* or through the connector's filter and timeout to the dial.
C25_Witness ==
    /\ st.pc = "inner"
    /\ \/ /\ ~st.connector
          /\ st.builder.layers =
                 <<"map_target", "connect_timeout", "request_filter">>
          /\ st.trace =
                 <<"request_filter", "connect_timeout", "map_target", "inner">>
       \/ /\ st.connector
          /\ st.port # proxy_port
          /\ st.trace = <<"request_filter", "connect_timeout", "ConnectTcp">>

\* C26: on the TCP-forward path looping is always prevented: for every
\* pipeline produced by push_tcp_forward, no forwarded connection is ever
\* dialed to the inbound proxy's own listening port.
C26_ForwardNeverLoops ==
    \A c \in DrainConns :
        (conn[c].version = "tcp" /\ conn[c].dials > 0) =>
            conn[c].dialAddr # Loopback(proxy_port)

\* C27: on the opaque-TCP path a ConnectTimeout or ConnectFailed ends the
\* connection by closing the stream, with the error and without a
\* response; and on the TCP path as on the HTTP path the connector is
\* called once for the connection: no second connect attempt follows the
\* failure.
C27_ConnectErrorClosesWithoutRetry ==
    \A c \in DrainConns :
        conn[c].connErr \in {ConnectTimeout, ConnectFailed} =>
            /\ conn[c].dials = 1
            /\ conn[c].dial \in {"abandoned", "refused"}
            /\ conn[c].pc \in {"connect_failed", "closed", "responded"}
            /\ (conn[c].version = "tcp" /\ conn[c].pc = "closed") =>
                   /\ conn[c].result = "Err"
                   /\ conn[c].error = conn[c].connErr
                   /\ conn[c].response = None
                   /\ conn[c].upstream = None

\* An opaque connection whose dial timed out has been closed.
C27_Witness ==
    \E c \in DrainConns :
        /\ conn[c].version = "tcp"
        /\ conn[c].pc = "closed"
        /\ conn[c].error = ConnectTimeout
        /\ conn[c].dials = 1
        /\ conn[c].response = None

\* C28: a Logical target built from a profile whose opaque-protocol flag
\* is set exposes the skip-detection parameter, so protocol detection is
\* skipped for a logical destination marked opaque, and it carries the
\* profile's logical address unchanged.
C28_LogicalSkipAndAddr ==
    \A c \in OutConns :
        (outConn[c].pc # "idle" /\ outConn[c].selected.either = "B") =>
            LET rx == outConn[c].profile[1]
                t == outConn[c].selected.target
            IN /\ t.kind = "Logical"
               /\ t.logical_addr = rx.addr[1]
               /\ rx.opaque_protocol => t.skip

\* A connection was served by the logical branch for a profile with a
\* logical address and the opaque flag set.
C28_Witness ==
    \E c \in OutConns :
        /\ outConn[c].pc = "served"
        /\ outConn[c].selected.either = "B"
        /\ outConn[c].profile[1].opaque_protocol
        /\ outConn[c].selected.target.skip
        /\ outConn[c].selected.target.logical_addr \in LogicalAddrs

\* C29: for every inbound connect target whose port p differs from the
\* proxy port, the address dialed is 127.0.0.1:p: the port is preserved
\* and the host is the loopback address, whatever the connection's
\* protocol and whatever else the target holds.
C29_DialsLoopbackSamePort ==
    \A c \in DrainConns :
        /\ (/\ conn[c].port # proxy_port
            /\ conn[c].pc \notin {"idle", "accepted", "connect"}) =>
               /\ conn[c].dials = 1
               /\ conn[c].dialAddr = <<"127.0.0.1", conn[c].port>>
        /\ conn[c].dials > 0 =>
               /\ conn[c].dialAddr[1] = "127.0.0.1"
               /\ conn[c].dialAddr[2] = conn[c].port
               /\ conn[c].port # proxy_port

\* An HTTP/2 connection for port 5550 behind a proxy on 4143 has been
\* connected to 127.0.0.1:5550.
C29_Witness ==
    \E c \in DrainConns :
        /\ proxy_port = 4143
        /\ conn[c].version = "H2"
        /\ conn[c].port = 5550
        /\ conn[c].dial = "connected"
        /\ conn[c].dialAddr = <<"127.0.0.1", 5550>>

\* C30: the application has a single drain signal: the inbound listener,
\* the outbound listener, the admin server and tap watch clones of one
\* drain channel, so a component sees the signal only when the one signal
\* has fired, and once any component has seen it every other component
\* that looks sees it too: none can be signalled apart from the others.
C30_SingleDrainSignal ==
    /\ [](\A k \in Components : app[k] = "signaled" => signalled)
    /\ [][\A j, k \in Components :
              (app[j] = "signaled" /\ app'[k] # app[k]) =>
                  app'[k] = "signaled"]_vars

\* One signal has been observed by the inbound listener, the outbound
\* listener, the admin server and tap.
C30_Witness ==
    /\ signalled
    /\ \A k \in Components : app[k] = "signaled"

WatchNext ==
    /\ \/ \E p \in Profile : watch_send(p)
       \/ \E r \in Readers, t \in OrigDstAddrs : rx_endpoint(r, t)
       \/ \E r \in Readers : rx_is_opaque_protocol(r)
       \/ \E r \in Readers : rx_logical_addr(r)
    /\ UNCHANGED <<inVars, dg, app, st, adm>>

\* The watch is created around some profile and no switch invocation has
\* read it yet; the rest of the proxy is at rest.
InitWatch ==
    /\ profileTx \in Profile
    /\ endpointStack = "mk"
    /\ logicalStack = "mk"
    /\ outConn = [c \in OutConns |-> OutIdle]
    /\ proxy_port = 4143
    /\ signalled = FALSE
    /\ drained = FALSE
    /\ listener = "serving"
    /\ retainedAtSignal = {}
    /\ conn = [c \in Conns |-> ConnIdle]
    /\ dg = DgIdle
    /\ app = AppIdle
    /\ st = StIdle
    /\ pw = PwIdle
    /\ adm = AdmIdle

\* The routing switch reading a profile watch that discovery keeps
\* writing.
SpecWatch == InitWatch /\ [][WatchNext]_vars

SpawnNext ==
    /\ \/ \E i \in Identities : spawn(i)
       \/ admin_thread
       \/ identity_task_certified
       \/ identity_task_lost
       \/ await_crt_ok
       \/ await_crt_err
       \/ admin_shutdown
    /\ UNCHANGED <<outVars, inVars, dg, st, pw>>

SpawnDrainNext ==
    /\ \/ spawned_signal
       \/ \E k \in Components : spawned_drain_watch(k)
    /\ UNCHANGED <<outVars, dg, st, pw>>

\* The application from Config::build through App::spawn.
SpecSpawn == Init /\ [][SpawnNext \/ SpawnDrainNext]_vars

\* C31: the readiness latch is released at most once, only after spawn and
\* only on the admin daemon thread; with identity enabled it is released
\* only once the local certificate has been obtained, never before, and
\* with identity disabled it is released as soon as the admin thread
\* starts.
C31_LatchReleasedOnce ==
    /\ Len(adm.latch) <= 1
    /\ \A i \in DOMAIN adm.latch : adm.latch[i] = "admin"
    /\ adm.latch # <<>> => adm.pc \in {"running", "stopped"}
    /\ (adm.identity = "Enabled" /\ adm.latch # <<>>) =>
           adm.crt = "obtained"
    /\ (adm.identity = "Disabled" /\ adm.pc \in {"running", "stopped"}) =>
           adm.latch # <<>>

\* With identity enabled the certificate was obtained and the latch
\* released on the admin thread.
C31_Witness ==
    /\ adm.identity = "Enabled"
    /\ adm.await_crt = "ok"
    /\ adm.latch = <<"admin">>

====
